---- MODULE Spec2Model ----
(***************************************************************************)
(* Snake game (raylib): the simulation core of the two builds of the       *)
(* repository, the multi-fruit build (src/unnamed/part_000) and the        *)
(* single-food build (src/src/main.cpp).                                   *)
(*                                                                         *)
(* One step of the model is one iteration of main's while loop (a frame):  *)
(* the ENTER handling, then exactly one of the game-over branch, the menu  *)
(* branch and the playing branch (tick gate, Game::Update, direction       *)
(* keys).  The inputs of a frame (keys, mouse click, the time the frame    *)
(* takes, the random cells drawn) are chosen nondeterministically.         *)
(*                                                                         *)
(* Vector2 is a record [x, y] of integers (the code stores whole numbers   *)
(* in floats, so Vector2Equals is exact equality here).  Times are in      *)
(* units of 1e-8 s, so that speed *= 0.98 is (speed * 98) \div 100.        *)
(* Textures, sounds and drawing are left out; a food item is its position. *)
(***************************************************************************)
EXTENDS Integers, Sequences, FiniteSets, TLC

VARIABLES
    build,        \* "multi" (part_000) or "single" (main.cpp), fixed at start
    body,         \* snake.body, head first
    direction,    \* snake.direction
    addSegment,   \* snake.addSegment
    fruits,       \* Game::fruits (multi) / <<Game::food>> (single): positions
    score,        \* Game::score
    speed,        \* Game::speed (multi; the single build's gate is the literal 0.2)
    running,      \* Game::running
    game_over,    \* Game::game_over
    high_score,   \* global high_score
    temp_score,   \* global temp_score
    exit,         \* main's local exit
    sinceUpdate,  \* GetTime() - lastUpdateTime as the next frame's gate reads it
    ticks,        \* ticks of the current round so far, counted up to MaxSteerTicks
    adv,          \* history: snake.body right after Snake::Update in the last frame (<<>>: no tick)
    hits,         \* history: the checks ("edgeX", "edgeY", "tail") that called GameOver in the last frame
    overLog,      \* history: <<score, high_score>> at the entry of each GameOver call of the last frame
    maxFinal,     \* history: the largest final score of the rounds ended so far
    occupied,     \* SpecFood: the deque given to Food::GenerateRandomPos
    candidates,   \* SpecFood: the cells GenerateRandomCell returns, in the order drawn
    position,     \* SpecFood: the cell GenerateRandomPos returned (NoCell: not called, or still looping)
    button,       \* SpecButton: a Button, its position and the size of its texture
    mouse,        \* SpecButton: the arguments of isPressed, mousePos and mousePressed
    returned,     \* SpecButton: <<the value isPressed returned>> (<<>>: not called)
    lag,          \* SpecGate: GetTime() - lastUpdateTime as read by the last gate call that fired (0: none yet)
    elapsed       \* history: the time from the gate call of the last tick (from the start: none yet) to the next frame's gate call, kept up to SpeedInit

vars == <<build, body, direction, addSegment, fruits, score, speed, running,
          game_over, high_score, temp_score, exit, sinceUpdate, ticks,
          adv, hits, overLog, maxFinal, elapsed, lag,
          occupied, candidates, position, button, mouse, returned>>

\* the variables of SpecFood and of SpecButton
foodVars == <<occupied, candidates, position>>

buttonVars == <<button, mouse, returned>>

----------------------------------------------------------------------------
(* Program constants *)

cellcount == 25

fruitCount == 3

SpeedInit == 20000000

SpeedFloor == 7000000

SpeedNum == 98

SpeedDen == 100

GateSingle == 20000000

WaitMulti == 15000000

WaitSingle == 10000000

(* Bounds of the model *)

\* the player presses direction keys only before this tick of a round
MaxSteerTicks == 3

\* the score at which the model stops a round's eating
MaxScore == 2

\* random cells drawn by one call of GenerateRandomPos before the model gives up
MaxDraws == 2

\* how many of the cells of RandOrder the random source can produce
NumRandCells == 3

\* SpecFood: the longest occupied deque given to GenerateRandomPos
MaxOccupied == 3

\* SpecReset: the longest snake Snake::Reset is called on
MaxResetLen == 4

\* SpecButton: the largest width and height of a button's texture
MaxTexture == 2

\* SpecSpeed: the score at which a round stops eating
MaxEats == 55

\* SpecSpeed: a round ends with at most this score, or after it stopped eating
EarlyEnd == 2

\* the two frame durations the clock can advance by (1e-8 s)
FrameShort == 10000000

FrameLong == 20000000

----------------------------------------------------------------------------
(* Vectors and cells *)

Vec(x, y) == [x |-> x, y |-> y]

Vector2Add(a, b) == [x |-> a.x + b.x, y |-> a.y + b.y]

Vector2Equals(a, b) == a.x = b.x /\ a.y = b.y

Negate(d) == [x |-> 0 - d.x, y |-> 0 - d.y]

Max(a, b) == IF a >= b THEN a ELSE b

Min(a, b) == IF a <= b THEN a ELSE b

InitBody == <<Vec(6, 9), Vec(5, 9), Vec(4, 9)>>

InitDirection == Vec(1, 0)

Directions == {Vec(1, 0), Vec(-1, 0), Vec(0, 1), Vec(0, -1)}

Builds == {"multi", "single"}

FruitCount(b) == IF b = "multi" THEN fruitCount ELSE 1

WaitTime(b) == IF b = "multi" THEN WaitMulti ELSE WaitSingle

\* The cells GetRandomValue can produce in the model: cells on and next to
\* the starting snake, the first NumRandCells of this list.
RandOrder ==
    <<Vec(7, 9), Vec(5, 9), Vec(7, 8), Vec(6, 9), Vec(8, 9), Vec(6, 8)>>

RandCells == {RandOrder[i] : i \in 1..Min(NumRandCells, Len(RandOrder))}

NoCell == Vec(-9, -9)

DrawSeqs == UNION {[1..k -> RandCells] : k \in 1..MaxDraws}

FrameTimes == {FrameShort, FrameLong}

Keys == {"UP", "DOWN", "LEFT", "RIGHT"}

Clicks == {"none", "start", "exit", "restart"}

----------------------------------------------------------------------------
(* Pure helpers of the code *)

\* a membership test that always answers yes
ElementInDequeAlways(element, deque) == TRUE

ElementInDeque(element, deque) ==
    \E i \in 1..Len(deque) : Vector2Equals(deque[i], element)

\* the gate firing only after more than the interval
EventTriggeredLate(interval, since) == since > interval

EventTriggered(interval, since) == since >= interval

\* GenerateRandomPos returning its first candidate without the test
RandPosFirst(draws, snakeBody) ==
    IF draws = <<>> THEN NoCell ELSE Head(draws)

\* Food::GenerateRandomPos on a given sequence of random draws: the first draw
\* outside snakeBody; NoCell when the loop is still running after the last draw.
RECURSIVE RandPos(_, _)
RandPos(draws, snakeBody) ==
    IF draws = <<>> THEN NoCell
    ELSE IF ElementInDeque(Head(draws), snakeBody)
         THEN RandPos(Tail(draws), snakeBody)
         ELSE Head(draws)

\* GenerateRandomPos without the rejection loop
GenerateRandomPosAny(snakeBody) == RandCells

\* The cells GenerateRandomPos can return within MaxDraws draws.
GenerateRandomPos(snakeBody) ==
    {RandPos(d, snakeBody) : d \in DrawSeqs} \ {NoCell}

----------------------------------------------------------------------------
(* Snake *)

\* Snake::Update popping the tail even when a segment is pending
SnakeUpdateAlwaysPop(s) ==
    LET pushed == <<Vector2Add(s.body[1], s.direction)>> \o s.body
    IN  [s EXCEPT !.body = SubSeq(pushed, 1, Len(pushed) - 1),
                  !.addSegment = FALSE]

\* Snake::Update moving the head two cells at a time
SnakeUpdateJump(s) ==
    LET ahead  == Vector2Add(Vector2Add(s.body[1], s.direction), s.direction)
        pushed == <<ahead>> \o s.body
    IN  IF s.addSegment
        THEN [s EXCEPT !.body = pushed, !.addSegment = FALSE]
        ELSE [s EXCEPT !.body = SubSeq(pushed, 1, Len(pushed) - 1)]

\* Snake::Update growing without clearing addSegment
SnakeUpdateKeepFlag(s) ==
    LET pushed == <<Vector2Add(s.body[1], s.direction)>> \o s.body
    IN  IF s.addSegment
        THEN [s EXCEPT !.body = pushed]
        ELSE [s EXCEPT !.body = SubSeq(pushed, 1, Len(pushed) - 1)]

\* Snake::Update never popping the tail
SnakeUpdateNeverPop(s) ==
    LET pushed == <<Vector2Add(s.body[1], s.direction)>> \o s.body
    IN  [s EXCEPT !.body = pushed, !.addSegment = FALSE]

\* Snake::Update, on any record with the fields body, direction, addSegment
SnakeUpdate(s) ==
    LET pushed == <<Vector2Add(s.body[1], s.direction)>> \o s.body
    IN  IF s.addSegment
        THEN [s EXCEPT !.body = pushed, !.addSegment = FALSE]
        ELSE [s EXCEPT !.body = SubSeq(pushed, 1, Len(pushed) - 1)]

\* Snake::Reset leaving a two-cell body (a variant that C20 must reject)
SnakeResetShort(s) ==
    [s EXCEPT !.body = SubSeq(InitBody, 1, 2), !.direction = InitDirection]

\* Snake::Reset to a body whose head lies on its last cell
SnakeResetOnItself(s) ==
    [s EXCEPT !.body = <<Vec(6, 9), Vec(5, 9), Vec(6, 9)>>,
              !.direction = InitDirection]

\* Snake::Reset
SnakeReset(s) ==
    [s EXCEPT !.body = InitBody, !.direction = InitDirection]

----------------------------------------------------------------------------
(* Game.  A game record g holds the fields of Game and the globals; the     *)
(* operators below return the SET of records the code can produce, one for *)
(* each outcome of the random draws.                                       *)

\* Game::GameOver leaving score as it is
GameOverKeepScore(g) ==
    LET r == SnakeReset(g)
    IN  {[r EXCEPT !.game_over = TRUE,
                   !.fruits = fs,
                   !.speed = IF g.build = "multi" THEN SpeedInit ELSE @,
                   !.running = FALSE,
                   !.high_score = IF g.score >= g.high_score THEN g.score ELSE @,
                   !.temp_score = g.score,
                   !.overLog = Append(@, <<g.score, g.high_score>>)]
         : fs \in [1..FruitCount(g.build) -> GenerateRandomPos(r.body)]}

\* Game::GameOver storing the round's score as high score whatever it is
GameOverOverwrite(g) ==
    LET r == SnakeReset(g)
    IN  {[r EXCEPT !.game_over = TRUE,
                   !.fruits = fs,
                   !.speed = IF g.build = "multi" THEN SpeedInit ELSE @,
                   !.running = FALSE,
                   !.high_score = g.score,
                   !.temp_score = g.score,
                   !.score = 0,
                   !.overLog = Append(@, <<g.score, g.high_score>>)]
         : fs \in [1..FruitCount(g.build) -> GenerateRandomPos(r.body)]}

\* Game::GameOver without the two assignments speed = 0.2
GameOverKeepSpeed(g) ==
    LET r == SnakeReset(g)
    IN  {[r EXCEPT !.game_over = TRUE,
                   !.fruits = fs,
                   !.running = FALSE,
                   !.high_score = IF g.score >= g.high_score THEN g.score ELSE @,
                   !.temp_score = g.score,
                   !.score = 0,
                   !.overLog = Append(@, <<g.score, g.high_score>>)]
         : fs \in [1..FruitCount(g.build) -> GenerateRandomPos(r.body)]}

\* Game::GameOver with temp_score = score after score = 0
GameOverTempAfter(g) ==
    LET r == SnakeReset(g)
    IN  {[r EXCEPT !.game_over = TRUE,
                   !.fruits = fs,
                   !.speed = IF g.build = "multi" THEN SpeedInit ELSE @,
                   !.running = FALSE,
                   !.high_score = IF g.score >= g.high_score THEN g.score ELSE @,
                   !.score = 0,
                   !.temp_score = 0,
                   !.overLog = Append(@, <<g.score, g.high_score>>)]
         : fs \in [1..FruitCount(g.build) -> GenerateRandomPos(r.body)]}

\* Game::GameOver
GameOver(g) ==
    LET r == SnakeReset(g)
    IN  {[r EXCEPT !.game_over = TRUE,
                   !.fruits = fs,
                   !.speed = IF g.build = "multi" THEN SpeedInit ELSE @,
                   !.running = FALSE,
                   !.high_score = IF g.score >= g.high_score THEN g.score ELSE @,
                   !.temp_score = g.score,
                   !.score = 0,
                   !.overLog = Append(@, <<g.score, g.high_score>>)]
         : fs \in [1..FruitCount(g.build) -> GenerateRandomPos(r.body)]}

\* the food loop's body without snake.addSegment = true
FoodStepNoGrow(g, i) ==
    IF Vector2Equals(g.body[1], g.fruits[i])
    THEN {[g EXCEPT !.fruits[i] = p,
                    !.score = @ + 1,
                    !.speed = IF g.build = "multi" /\ @ >= SpeedFloor
                              THEN (@ * SpeedNum) \div SpeedDen ELSE @]
          : p \in GenerateRandomPos(g.body)}
    ELSE {g}

\* the food loop's body multiplying speed without the test speed >= 0.07
FoodStepNoFloor(g, i) ==
    IF Vector2Equals(g.body[1], g.fruits[i])
    THEN {[g EXCEPT !.fruits[i] = p,
                    !.addSegment = TRUE,
                    !.score = @ + 1,
                    !.speed = IF g.build = "multi"
                              THEN (@ * SpeedNum) \div SpeedDen ELSE @]
          : p \in GenerateRandomPos(g.body)}
    ELSE {g}

\* the food loop's body respawning a fruit away from the other fruits too
FoodStepApart(g, i) ==
    IF Vector2Equals(g.body[1], g.fruits[i])
    THEN {[g EXCEPT !.fruits[i] = p,
                    !.addSegment = TRUE,
                    !.score = @ + 1,
                    !.speed = IF g.build = "multi" /\ @ >= SpeedFloor
                              THEN (@ * SpeedNum) \div SpeedDen ELSE @]
          : p \in GenerateRandomPos(g.body)
                    \ {g.fruits[j] : j \in (1..Len(g.fruits)) \ {i}}}
    ELSE {g}

\* the body of the loop of Game::CheckCollisionWithFood for fruit i
FoodStep(g, i) ==
    IF Vector2Equals(g.body[1], g.fruits[i])
    THEN {[g EXCEPT !.fruits[i] = p,
                    !.addSegment = TRUE,
                    !.score = @ + 1,
                    !.speed = IF g.build = "multi" /\ @ >= SpeedFloor
                              THEN (@ * SpeedNum) \div SpeedDen ELSE @]
          : p \in GenerateRandomPos(g.body)}
    ELSE {g}

RECURSIVE FoodLoop(_, _)
FoodLoop(gs, i) ==
    IF gs = {} THEN {}
    ELSE LET n == FruitCount((CHOOSE g \in gs : TRUE).build)
         IN  IF i > n THEN gs
             ELSE FoodLoop(UNION {FoodStep(g, i) : g \in gs}, i + 1)

\* the food check looking at the first fruit only
CheckCollisionWithFirstFood(g) == FoodStep(g, 1)

\* Game::CheckCollisionWithFood
CheckCollisionWithFood(g) == FoodLoop({g}, 1)

\* the y test without the comparison with -1
OutOfBoundsYLow(head) == head.y = cellcount

\* the x test without the comparison with -1
OutOfBoundsXHigh(head) == head.x = cellcount

\* the x test without the comparison with cellcount
OutOfBoundsXLeft(head) == head.x = -1

\* head one step outside the grid in x, respectively in y
OutOfBoundsX(head) == head.x = cellcount \/ head.x = -1

OutOfBoundsY(head) == head.y = cellcount \/ head.y = -1

\* a collision check calling GameOver (and playing the wall sound)
Hit(g, site) == {[k EXCEPT !.hits = Append(@, site)] : k \in GameOver(g)}

\* Game::CheckCollisionWithEdges: two independent tests, the second on the
\* state the first left
CheckCollisionWithEdges(g) ==
    LET afterX == IF OutOfBoundsX(g.body[1]) THEN Hit(g, "edgeX") ELSE {g}
    IN  UNION {IF OutOfBoundsY(h.body[1]) THEN Hit(h, "edgeY") ELSE {h}
               : h \in afterX}

\* the tail test leaving out the last segment
HeadHitsBodyShort(snakeBody) ==
    LET headless == SubSeq(snakeBody, 2, Len(snakeBody) - 1)
    IN  ElementInDeque(snakeBody[1], headless)

\* the tail test looking only at the segment right behind the head
HeadHitsNeck(snakeBody) ==
    Vector2Equals(snakeBody[1], snakeBody[2])

\* the test of Game::CheckCollisionsWithTail
HeadHitsBody(snakeBody) ==
    LET headless == Tail(snakeBody)
    IN  ElementInDeque(snakeBody[1], headless)

\* Game::CheckCollisionsWithTail
CheckCollisionsWithTail(g) ==
    IF HeadHitsBody(g.body) THEN Hit(g, "tail") ELSE {g}

\* Game::Update without the test of running
UpdateAlways(g) ==
    LET moved == SnakeUpdate(g)
        seen  == [moved EXCEPT !.adv = moved.body]
    IN  UNION {UNION {CheckCollisionsWithTail(k)
                      : k \in CheckCollisionWithEdges(h)}
               : h \in CheckCollisionWithFood(seen)}

\* Game::Update
Update(g) ==
    IF g.running
    THEN LET moved == SnakeUpdate(g)
             seen  == [moved EXCEPT !.adv = moved.body]
         IN  UNION {UNION {CheckCollisionsWithTail(k)
                           : k \in CheckCollisionWithEdges(h)}
                    : h \in CheckCollisionWithFood(seen)}
    ELSE {g}

----------------------------------------------------------------------------------------------------------------------------------------
(* main: the parts of one loop iteration *)

\* if (IsKeyPressed(KEY_ENTER) && game.running == false)
HandleEnter(g, enter) ==
    IF enter /\ g.running = FALSE
    THEN [g EXCEPT !.running = TRUE, !.game_over = FALSE]
    ELSE g

\* a restart button that clears game_over without setting running
GameOverBranchToMenu(g, click) ==
    IF click = "restart"
    THEN [g EXCEPT !.game_over = FALSE]
    ELSE g

\* the game-over branch: the restart button
GameOverBranch(g, click) ==
    IF click = "restart"
    THEN [g EXCEPT !.game_over = FALSE, !.running = TRUE]
    ELSE g

\* the menu branch: the exit button, else the start button
MenuBranch(g, click) ==
    IF click = "exit" THEN [g EXCEPT !.exit = TRUE]
    ELSE IF click = "start" THEN [g EXCEPT !.running = TRUE]
    ELSE g

\* the interval the tick gate is called with
Interval(g) == IF g.build = "multi" THEN g.speed ELSE GateSingle

\* if (EventTriggered(interval)) game.Update(): a firing gate sets
\* lastUpdateTime to the current time; ticks counts the round's ticks
Ticked(g) ==
    IF EventTriggered(Interval(g), g.since)
    THEN {[h EXCEPT !.since = 0,
                    !.ticks = IF h.overLog # <<>> THEN 0
                              ELSE Min(g.ticks + 1, MaxSteerTicks)]
          : h \in Update(g)}
    ELSE {g}

\* a direction-key test that forgets to compare with the current direction
KeyStepAny(g, pressed, allowed, d) ==
    IF pressed
    THEN [g EXCEPT !.direction = d, !.wait = @ + WaitTime(g.build), !.running = TRUE]
    ELSE g

\* one direction-key test of the playing branch
KeyStep(g, pressed, allowed, d) ==
    IF pressed /\ allowed
    THEN [g EXCEPT !.direction = d, !.wait = @ + WaitTime(g.build), !.running = TRUE]
    ELSE g

\* the four direction-key tests, in the order of the code
DirectionKeys(g, keys) ==
    LET up    == KeyStep(g,    "UP"    \in keys, g.direction.y    # 1,  Vec(0, -1))
        down  == KeyStep(up,   "DOWN"  \in keys, up.direction.y   # -1, Vec(0, 1))
        left  == KeyStep(down, "LEFT"  \in keys, down.direction.x # 1,  Vec(-1, 0))
        right == KeyStep(left, "RIGHT" \in keys, left.direction.x # -1, Vec(1, 0))
    IN  right

\* the state at the start of a frame as a game record
G ==
    [build |-> build, body |-> body, direction |-> direction,
     addSegment |-> addSegment, fruits |-> fruits, score |-> score,
     speed |-> speed, running |-> running, game_over |-> game_over,
     high_score |-> high_score, temp_score |-> temp_score, exit |-> exit,
     since |-> sinceUpdate, ticks |-> ticks,
     adv |-> <<>>, hits |-> <<>>, overLog |-> <<>>, wait |-> 0]

\* which branch of the loop body a frame takes after the ENTER handling
Branch(g) ==
    IF g.game_over = TRUE THEN "over"
    ELSE IF (~g.running) /\ g.game_over = FALSE THEN "menu"
    ELSE "play"

\* the playing branch: the tick gate and Game::Update, then the direction keys
PlayBranch(g, keys) == {DirectionKeys(g2, keys) : g2 \in Ticked(g)}

\* one iteration of main's loop on the inputs of the frame: the records the
\* frame can end with
Frame(enter, click, keys) ==
    LET g1 == HandleEnter(G, enter)
    IN  IF Branch(g1) = "over" THEN {GameOverBranch(g1, click)}
        ELSE IF Branch(g1) = "menu" THEN {MenuBranch(g1, click)}
        ELSE PlayBranch(g1, keys)

\* the gate's clock reading at the next frame, for each time dt the rest of
\* the frame can take (kept up to SpeedInit, the largest interval: beyond it
\* every gate fires)
Readings(g) == {Min(g.since + g.wait + dt, SpeedInit) : dt \in FrameTimes}

\* the end of a frame: g becomes the state, reading the next gate's clock
Commit(g, reading) ==
    /\ build' = g.build
    /\ body' = g.body
    /\ direction' = g.direction
    /\ addSegment' = g.addSegment
    /\ fruits' = g.fruits
    /\ score' = g.score
    /\ speed' = g.speed
    /\ running' = g.running
    /\ game_over' = g.game_over
    /\ high_score' = g.high_score
    /\ temp_score' = g.temp_score
    /\ exit' = g.exit
    /\ ticks' = g.ticks
    /\ adv' = g.adv
    /\ hits' = g.hits
    /\ overLog' = g.overLog
    /\ maxFinal' = IF g.overLog = <<>> THEN maxFinal
                   ELSE Max(maxFinal, g.overLog[1][1])
    /\ sinceUpdate' = reading
    /\ UNCHANGED <<foodVars, buttonVars, lag>>
    /\ elapsed' \in {Min((IF g.adv # <<>> THEN 0 ELSE elapsed) + g.wait + dt,
                          SpeedInit)
                      : dt \in {d \in FrameTimes :
                                  Min(g.since + g.wait + d, SpeedInit) = reading}}

\* the state after the ENTER handling, for ENTER up and ENTER down
Entered(branch) ==
    {g \in {HandleEnter(G, enter) : enter \in BOOLEAN} : Branch(g) = branch}

\* the key sets the player can hold down in a frame
KeySets(g) == IF g.ticks < MaxSteerTicks THEN SUBSET Keys ELSE {{}}

\* the variables of SpecFood and of SpecButton where these are not run
FoodIdle ==
    /\ occupied = <<>>
    /\ candidates = <<>>
    /\ position = NoCell

ButtonIdle ==
    /\ button = [position |-> Vec(350, 300), width |-> 1, height |-> 1]
    /\ mouse = [pos |-> Vec(0, 0), pressed |-> FALSE]
    /\ returned = <<>>

----------------------------------------------------------------------------
(* The frames *)

Init ==
    /\ build \in Builds
    /\ body = InitBody
    /\ direction = InitDirection
    /\ addSegment = FALSE
    /\ fruits \in [1..FruitCount(build) -> GenerateRandomPos(InitBody)]
    /\ score = 0
    /\ speed = SpeedInit
    /\ running = FALSE
    /\ game_over = FALSE
    /\ high_score = 0
    /\ temp_score = 0
    /\ exit = FALSE
    /\ sinceUpdate = 0
    /\ ticks = 0
    /\ adv = <<>>
    /\ hits = <<>>
    /\ overLog = <<>>
    /\ maxFinal = 0
    /\ elapsed = 0
    /\ lag = 0
    /\ FoodIdle
    /\ ButtonIdle

\* a frame that takes the game-over branch
GameOverFrame ==
    /\ exit = FALSE
    /\ \E g \in {GameOverBranch(g1, click)
                 : g1 \in Entered("over"), click \in Clicks} :
          \E reading \in Readings(g) : Commit(g, reading)

\* a frame that takes the menu branch
MenuFrame ==
    /\ exit = FALSE
    /\ \E g \in {MenuBranch(g1, click)
                 : g1 \in Entered("menu"), click \in Clicks} :
          \E reading \in Readings(g) : Commit(g, reading)

\* a frame that takes the playing branch: its outcomes are those of
\* PlayBranch(g1, keys), with the tick taken before the keys are chosen
PlayFrame ==
    /\ exit = FALSE
    /\ \E g2 \in UNION {Ticked(g1) : g1 \in Entered("play")} :
          /\ g2.score <= MaxScore
          /\ \E g \in {DirectionKeys(g2, keys) : keys \in KeySets(g2)} :
                \E reading \in Readings(g) : Commit(g, reading)

Next == GameOverFrame \/ MenuFrame \/ PlayFrame

Spec == Init /\ [][Next]_vars

----------------------------------------------------------------------------
(* SpecFood: Food::GenerateRandomPos as a function of the occupied deque   *)
(* and of the cells the random source returns, on the whole grid.          *)

\* GetRandomValue(min, max): any integer from min to max, both included
GetRandomValue(min, max) == min..max

\* the coordinates the random source is tried on in SpecFood: the two ends
\* of the range and the values just outside it
ProbeCoords == {-1, 0, cellcount - 1, cellcount}

\* Food::GenerateRandomCell: the cells it can return (on the probe coordinates)
GenerateRandomCell ==
    {Vec(x, y) : x \in GetRandomValue(0, cellcount - 1) \cap ProbeCoords,
                 y \in GetRandomValue(0, cellcount - 1) \cap ProbeCoords}

SeqsUpTo(S, n) == UNION {[1..k -> S] : k \in 0..n}

\* the game is not running in SpecFood: its variables stay as constructed
GameIdle ==
    /\ build = "multi"
    /\ body = InitBody
    /\ direction = InitDirection
    /\ addSegment = FALSE
    /\ fruits = [i \in 1..fruitCount |-> Vec(7, 9)]
    /\ score = 0
    /\ speed = SpeedInit
    /\ running = FALSE
    /\ game_over = FALSE
    /\ high_score = 0
    /\ temp_score = 0
    /\ exit = FALSE
    /\ sinceUpdate = 0
    /\ ticks = 0
    /\ adv = <<>>
    /\ hits = <<>>
    /\ overLog = <<>>
    /\ maxFinal = 0
    /\ elapsed = 0
    /\ lag = 0

FoodInit ==
    /\ GameIdle
    /\ ButtonIdle
    /\ occupied \in SeqsUpTo(GenerateRandomCell, MaxOccupied)
    /\ candidates \in SeqsUpTo(GenerateRandomCell, MaxDraws) \ {<<>>}
    /\ position = NoCell

\* one call of GenerateRandomPos(occupied) drawing the cells of candidates
FoodSpawn ==
    /\ position = NoCell
    /\ position' = RandPos(candidates, occupied)
    /\ position' # NoCell
    /\ UNCHANGED <<build, body, direction, addSegment, fruits, score, speed,
                   running, game_over, high_score, temp_score, exit,
                   sinceUpdate, ticks, adv, hits, overLog, maxFinal, elapsed, lag,
                   occupied, candidates, buttonVars>>

FoodNext == FoodSpawn

SpecFood == FoodInit /\ [][FoodNext]_vars

----------------------------------------------------------------------------
(* SpecDraw: the loop of Food::GenerateRandomPos step by step, under a     *)
(* random source that returns every cell again and again.  The source is   *)
(* the one of SpecFood (the corner cells of the grid); candidates holds    *)
(* the last MaxDraws cells drawn, the last of them being newPos, and       *)
(* position is NoCell until the function returns.                          *)

\* a deque holding every cell the random source can return
FullDeque ==
    CHOOSE f \in [1..Cardinality(GenerateRandomCell) -> GenerateRandomCell] :
        {f[i] : i \in DOMAIN f} = GenerateRandomCell

\* the deques GenerateRandomPos is called with
DrawOccupied == SeqsUpTo(GenerateRandomCell, MaxOccupied) \cup {FullDeque}

\* the loop is at its test with newPos the last cell drawn
AtLoopTest == position = NoCell /\ candidates # <<>>

DrawInit ==
    /\ GameIdle
    /\ ButtonIdle
    /\ occupied \in DrawOccupied
    /\ candidates = <<>>
    /\ position = NoCell

\* newPos = GenerateRandomCell() returning c: the first draw, or a draw in
\* the loop body after the test found newPos in the deque
DrawCell(c) ==
    /\ position = NoCell
    /\ IF candidates = <<>> THEN TRUE
       ELSE ElementInDeque(candidates[Len(candidates)], occupied)
    /\ candidates' = IF Len(candidates) < MaxDraws
                     THEN Append(candidates, c)
                     ELSE Append(Tail(candidates), c)
    /\ UNCHANGED <<build, body, direction, addSegment, fruits, score, speed,
                   running, game_over, high_score, temp_score, exit,
                   sinceUpdate, ticks, adv, hits, overLog, maxFinal, elapsed, lag,
                   occupied, position, buttonVars>>

\* the loop test finds newPos outside the deque: return newPos
DrawReturn ==
    /\ AtLoopTest
    /\ ~ElementInDeque(candidates[Len(candidates)], occupied)
    /\ position' = candidates[Len(candidates)]
    /\ UNCHANGED <<build, body, direction, addSegment, fruits, score, speed,
                   running, game_over, high_score, temp_score, exit,
                   sinceUpdate, ticks, adv, hits, overLog, maxFinal, elapsed, lag,
                   occupied, candidates, buttonVars>>

DrawNext == (\E c \in GenerateRandomCell : DrawCell(c)) \/ DrawReturn

\* the program keeps running, and the random source returns each cell again
\* and again
DrawFair ==
    /\ WF_vars(DrawReturn)
    /\ \A c \in GenerateRandomCell : WF_vars(DrawCell(c))

SpecDraw == DrawInit /\ [][DrawNext]_vars /\ DrawFair

----------------------------------------------------------------------------
(* SpecButton: Button::isPressed as a function of the button and of the    *)
(* mouse, for the three buttons of main with small textures.               *)

\* raylib's CheckCollisionPointRec: the left and top edges belong to the
\* rectangle, the right and bottom edges do not
CheckCollisionPointRec(point, rec) ==
    /\ point.x >= rec.x
    /\ point.x < rec.x + rec.width
    /\ point.y >= rec.y
    /\ point.y < rec.y + rec.height

\* Button::isPressed answering for any position of the mouse
isPressedAnywhere(b, mousePos, mousePressed) == mousePressed

\* Button::isPressed
isPressed(b, mousePos, mousePressed) ==
    LET rect == [x |-> b.position.x, y |-> b.position.y,
                 width |-> b.width, height |-> b.height]
    IN  IF CheckCollisionPointRec(mousePos, rect) /\ mousePressed
        THEN TRUE
        ELSE FALSE

\* the positions main gives its three buttons
ButtonPositions == {Vec(350, 300), Vec(350, 450), Vec(350, 500)}

\* the buttons tried: the texture sizes are those of images not in the
\* repository, here 1..MaxTexture
Buttons ==
    {[position |-> p, width |-> w, height |-> h]
     : p \in ButtonPositions, w \in 1..MaxTexture, h \in 1..MaxTexture}

\* the mouse positions tried on button b: on it and up to one pixel around
MouseAround(b) ==
    {Vec(x, y) : x \in (b.position.x - 1)..(b.position.x + b.width + 1),
                 y \in (b.position.y - 1)..(b.position.y + b.height + 1)}

ButtonInit ==
    /\ GameIdle
    /\ FoodIdle
    /\ button \in Buttons
    /\ mouse \in {[pos |-> p, pressed |-> c]
                   : p \in UNION {MouseAround(b) : b \in Buttons},
                     c \in BOOLEAN}
    /\ mouse.pos \in MouseAround(button)
    /\ returned = <<>>

\* one call of button.isPressed(mousePos, mousePressed)
ButtonCall ==
    /\ returned = <<>>
    /\ returned' = <<isPressed(button, mouse.pos, mouse.pressed)>>
    /\ UNCHANGED <<build, body, direction, addSegment, fruits, score, speed,
                   running, game_over, high_score, temp_score, exit,
                   sinceUpdate, ticks, adv, hits, overLog, maxFinal, elapsed, lag,
                   foodVars, button, mouse>>

ButtonNext == ButtonCall

SpecButton == ButtonInit /\ [][ButtonNext]_vars

----------------------------------------------------------------------------
(* SpecReset: Snake::Reset as a function of the snake it is called on.     *)

\* the bodies tried: snakes of 3..MaxResetLen cells lying along a row, with
\* the head on or right of the starting head
ResetBodies ==
    {[i \in 1..n |-> Vec(hx - i + 1, hy)]
     : hx \in 6..9, hy \in 8..9, n \in 3..MaxResetLen}

ResetInit ==
    /\ build = "multi"
    /\ body \in ResetBodies
    /\ direction \in Directions
    /\ addSegment \in BOOLEAN
    /\ fruits = [i \in 1..fruitCount |-> Vec(12, 12)]
    /\ score = 0
    /\ speed = SpeedInit
    /\ running = TRUE
    /\ game_over = FALSE
    /\ high_score = 0
    /\ temp_score = 0
    /\ exit = FALSE
    /\ sinceUpdate = 0
    /\ ticks = 0
    /\ adv = <<>>
    /\ hits = <<>>
    /\ overLog = <<>>
    /\ maxFinal = 0
    /\ elapsed = 0
    /\ lag = 0
    /\ FoodIdle
    /\ ButtonIdle

\* one call of snake.Reset()
ResetCall ==
    /\ LET r == SnakeReset([body |-> body, direction |-> direction,
                            addSegment |-> addSegment])
       IN  /\ body' = r.body
           /\ direction' = r.direction
           /\ addSegment' = r.addSegment
    /\ UNCHANGED <<build, fruits, score, speed, running, game_over,
                   high_score, temp_score, exit, sinceUpdate, ticks, adv,
                   hits, overLog, maxFinal, elapsed, lag, foodVars, buttonVars>>

ResetNext == ResetCall

SpecReset == ResetInit /\ [][ResetNext]_vars

----------------------------------------------------------------------------
(* SpecSpeed: the tick interval of the multi-fruit build over long rounds. *)
(* Only what the interval depends on is kept: the eating ticks (the food   *)
(* check on a snake whose head has just reached one or more fruits) and    *)
(* the round ends, early in a round or after MaxEats items; the snake's    *)
(* way between them is left out.                                           *)

SpeedInitState ==
    /\ GameIdle
    /\ FoodIdle
    /\ ButtonIdle

\* the game right after snake.Update() of a tick that brought the head onto
\* k of the fruits
HeadOnFruits(k) ==
    [G EXCEPT !.body = <<Vec(7, 9), Vec(6, 9), Vec(5, 9)>>,
              !.fruits = [i \in 1..fruitCount |->
                            IF i <= k THEN Vec(7, 9) ELSE Vec(7, 8)]]

\* Game::CheckCollisionWithFood of a tick that eats k fruits
SpeedEat ==
    /\ score < MaxEats
    /\ \E k \in 1..fruitCount :
          \E h \in CheckCollisionWithFood(HeadOnFruits(k)) :
             /\ score' = h.score
             /\ speed' = h.speed
    /\ UNCHANGED <<build, body, direction, addSegment, fruits, running,
                   game_over, high_score, temp_score, exit, sinceUpdate,
                   ticks, adv, hits, overLog, maxFinal, elapsed, lag,
                   foodVars, buttonVars>>

\* Game::GameOver at the end of a round, and the restart
SpeedRoundEnd ==
    /\ score <= EarlyEnd \/ score >= MaxEats
    /\ \E h \in GameOver(G) :
          /\ score' = h.score
          /\ speed' = h.speed
          /\ high_score' = h.high_score
          /\ temp_score' = h.temp_score
    /\ UNCHANGED <<build, body, direction, addSegment, fruits, running,
                   game_over, exit, sinceUpdate, ticks, adv, hits, overLog,
                   maxFinal, elapsed, lag, foodVars, buttonVars>>

SpeedNext == SpeedEat \/ SpeedRoundEnd

SpecSpeed == SpeedInitState /\ [][SpeedNext]_vars

----------------------------------------------------------------------------
(* Properties *)

Cells(b) == {b[i] : i \in 1..Len(b)}

\* the results Game::Update can have when the next frame's gate fires
TickOutcomes ==
    IF exit THEN {}
    ELSE UNION {{g \in Ticked(g1) : g.adv # <<>>} : g1 \in Entered("play")}

InsideGrid(c) == c.x \in 0..(cellcount - 1) /\ c.y \in 0..(cellcount - 1)

OneStepOutside(c) == c.x \in {-1, cellcount} \/ c.y \in {-1, cellcount}

HeadOnOtherCell(b) == \E i \in 2..Len(b) : b[i] = b[1]

EdgeHit(h) == \E i \in 1..Len(h) : h[i] \in {"edgeX", "edgeY"}

\* C1: at every frame boundary (and in every Menu and GameOver state) no
\* food item lies on a cell of the snake, in both builds.
C1_FoodOffSnake ==
    \A i \in 1..Len(fruits) : fruits[i] \notin Cells(body)

\* C1 witness: in a round after a restart, a tick has just eaten a fruit
\* with a snake that had already grown.
C1_Witness ==
    /\ maxFinal >= 1
    /\ adv = body
    /\ Len(body) >= 4
    /\ addSegment
    /\ score >= 2

\* C2 (as claimed): a tick that follows another tick of the same round never
\* applies the negation of the direction that tick applied, i.e. its new
\* head is never the second segment of the body before the tick.
C2_NoReversal ==
    [][(adv' # <<>> /\ ticks > 0) => adv'[1] # body[2]]_vars

\* C3 (as claimed): from every state with game_over = true, a frame with
\* ENTER pressed ends Running with game_over cleared, and so does a frame
\* with a click on the restart button.
C3_EnterRestarts ==
    (game_over = TRUE /\ exit = FALSE) =>
        /\ \A click \in Clicks, keys \in SUBSET Keys :
             \A g \in Frame(TRUE, click, keys) :
                g.running = TRUE /\ g.game_over = FALSE
        /\ \A enter \in BOOLEAN, keys \in SUBSET Keys :
             \A g \in Frame(enter, "restart", keys) :
                g.running = TRUE /\ g.game_over = FALSE

\* C4: a tick ends the round through the boundary check exactly when the
\* post-advance head has x or y equal to -1 or cellcount; then game_over is
\* true and running false at the end of that tick.
C4_Boundary ==
    \A g \in TickOutcomes :
       /\ EdgeHit(g.hits) <=> OneStepOutside(g.adv[1])
       /\ InsideGrid(g.adv[1]) => ~EdgeHit(g.hits)
       /\ OneStepOutside(g.adv[1]) => (g.game_over = TRUE /\ g.running = FALSE)

\* C4 witness: a tick has put the head one step outside the left edge and
\* the round has ended.
C4_Witness ==
    /\ adv # <<>>
    /\ adv[1].x = -1
    /\ EdgeHit(hits)
    /\ game_over = TRUE

\* C5: a tick whose post-advance head is on another cell of the post-advance
\* body ends the round; a tick whose head is inside the grid and on no other
\* body cell leaves it Running; running becomes false only by a collision.
C5_SelfCollision ==
    /\ [](\A g \in TickOutcomes :
             /\ HeadOnOtherCell(g.adv) =>
                   (g.game_over = TRUE /\ g.running = FALSE /\ g.hits # <<>>)
             /\ (InsideGrid(g.adv[1]) /\ ~HeadOnOtherCell(g.adv)) =>
                   (g.running = TRUE /\ g.game_over = FALSE /\ g.hits = <<>>))
    /\ [][(running = TRUE /\ running' = FALSE) =>
             /\ adv' # <<>>
             /\ hits' # <<>>
             /\ OneStepOutside(adv'[1]) \/ HeadOnOtherCell(adv')
         ]_vars

\* C5 witness: a tick has put the head on another cell of the body and the
\* tail check has ended the round.
C5_Witness ==
    /\ adv # <<>>
    /\ HeadOnOtherCell(adv)
    /\ hits = <<"tail">>
    /\ game_over = TRUE
    /\ running = FALSE

\* C6: every call of GameOver leaves score = 0 and high_score = the maximum
\* of the high score and the score it was entered with.
C6_GameOverScores ==
    overLog # <<>> =>
        /\ score = 0
        /\ high_score = Max(overLog[Len(overLog)][1], overLog[Len(overLog)][2])
        /\ \A i \in 1..(Len(overLog) - 1) :
              /\ overLog[i + 1][1] = 0
              /\ overLog[i + 1][2] = Max(overLog[i][1], overLog[i][2])

\* C6 witness: GameOver was entered with a positive score below the high
\* score.
C6_Witness ==
    /\ overLog # <<>>
    /\ overLog[1][1] >= 1
    /\ overLog[1][1] < overLog[1][2]

\* C7: high_score never decreases, changes only in a frame in which a round
\* ends, and is always the largest final score of the rounds ended so far.
C7_HighScore ==
    [][/\ high_score' >= high_score
       /\ high_score' # high_score => overLog' # <<>>
       /\ high_score' = maxFinal'
       /\ overLog' # <<>> => high_score' = Max(high_score, overLog'[1][1])
      ]_vars

\* C7 witness: a round has just ended with a final score below the largest
\* one so far.
C7_Witness ==
    /\ overLog # <<>>
    /\ overLog[1][1] < maxFinal
    /\ high_score = maxFinal
    /\ temp_score < high_score

\* C8 (as claimed): whenever game_over is true the snake is in its initial
\* configuration, body and direction.
C8_ResetAtGameOver ==
    game_over = TRUE => (body = InitBody /\ direction = InitDirection)

\* C9: Snake::Update puts head + direction in front, keeps the whole old body
\* when addSegment was true (and clears it), drops the last cell otherwise,
\* and leaves direction alone.
C9_SnakeUpdate ==
    [][adv' # <<>> =>
          LET newHead == [x |-> body[1].x + direction.x,
                          y |-> body[1].y + direction.y]
              s == SnakeUpdate([body |-> body, direction |-> direction,
                                addSegment |-> addSegment])
          IN  /\ adv' = IF addSegment
                        THEN <<newHead>> \o body
                        ELSE <<newHead>> \o SubSeq(body, 1, Len(body) - 1)
              /\ s.body = adv'
              /\ s.addSegment = FALSE
              /\ s.direction = direction
              /\ (body = InitBody /\ direction = Vec(1, 0) /\ ~addSegment) =>
                    adv' = <<Vec(7, 9), Vec(6, 9), Vec(5, 9)>>
      ]_vars

\* C9 witness: a tick with a pending segment has advanced a turned snake.
C9_Witness ==
    /\ adv # <<>>
    /\ Len(adv) = 4
    /\ adv[1].y # adv[4].y
    /\ hits = <<>>

\* C10: a tick's advance lengthens the body by one when a segment is pending
\* and not at all otherwise; a tick that eats leaves a segment pending, a tick
\* that does not eat leaves none, and frames without a tick keep the flag.
C10_GrowthOnce ==
    [][/\ adv' # <<>> =>
             /\ Len(adv') = Len(body) + (IF addSegment THEN 1 ELSE 0)
             /\ hits' = <<>> => (addSegment' = (score' > score))
             /\ hits' = <<>> => Len(body') = Len(adv')
       /\ adv' = <<>> => (addSegment' = addSegment /\ Len(body') = Len(body))
      ]_vars

\* C10 witness: the tick after an eating tick has grown the snake by one and
\* left nothing pending.
C10_Witness ==
    /\ adv = body
    /\ Len(body) = 4
    /\ score = 1
    /\ ~addSegment
    /\ hits = <<>>

\* C11: Game::Update changes nothing when running is false, and a frame that
\* takes the menu branch or the game-over branch leaves the snake (body,
\* direction, addSegment), the food positions, score, the tick interval and
\* high_score as they were, whatever the clock reads.
C11_NoTickOffPlay ==
    /\ [](LET g == [G EXCEPT !.running = FALSE] IN Update(g) = {g})
    /\ [][(GameOverFrame \/ MenuFrame) =>
             /\ UNCHANGED <<body, direction, addSegment, fruits, score,
                            speed, high_score>>
             /\ adv' = <<>>
         ]_vars

\* C11 witness: a frame has taken the game-over branch with running true and
\* the tick interval elapsed, and the snake stayed where the last round's
\* end left it.
C11_Witness ==
    /\ game_over = TRUE
    /\ running = TRUE
    /\ adv = <<>>
    /\ hits = <<>>
    /\ direction # InitDirection
    /\ sinceUpdate >= Interval(G)

\* the unit vector of a direction key
KeyDir(k) ==
    IF k = "UP" THEN Vec(0, -1)
    ELSE IF k = "DOWN" THEN Vec(0, 1)
    ELSE IF k = "LEFT" THEN Vec(-1, 0)
    ELSE Vec(1, 0)

\* direction d after the test of key k: a press of the exact opposite of d
\* is rejected, any other press is accepted
AfterKey(d, keys, k) ==
    IF k \in keys /\ KeyDir(k) # Negate(d) THEN KeyDir(k) ELSE d

\* the four tests one after the other, each on the direction of that moment
AfterKeys(d, keys) ==
    AfterKey(AfterKey(AfterKey(AfterKey(d, keys, "UP"),
                               keys, "DOWN"), keys, "LEFT"), keys, "RIGHT")

\* C12: a press of the key opposite to the direction of that moment leaves
\* direction unchanged, every other press sets direction to the key's unit
\* vector, for one key and for several keys in a frame; direction is always
\* one of the four unit vectors.
C12_OppositeRejected ==
    LET s == [build |-> build, direction |-> direction, running |-> running,
              wait |-> 0]
    IN  /\ direction \in Directions
        /\ \A k \in Keys :
              DirectionKeys(s, {k}).direction =
                 IF KeyDir(k) = Negate(direction) THEN direction ELSE KeyDir(k)
        /\ \A keys \in SUBSET Keys :
              DirectionKeys(s, keys).direction = AfterKeys(direction, keys)

\* C12 witness: the snake has just moved down in a running round, where a
\* press of UP is rejected and a press of LEFT accepted.
C12_Witness ==
    /\ running = TRUE /\ game_over = FALSE
    /\ adv = body
    /\ body[1].y = body[2].y + 1
    /\ direction = Vec(0, 1)
    /\ DirectionKeys(G, {"UP"}).direction = Vec(0, 1)
    /\ DirectionKeys(G, {"LEFT"}).direction = Vec(-1, 0)

\* C13: the gate fires exactly when the time since lastUpdateTime is at
\* least the interval; lastUpdateTime is the time of the last firing (set when
\* the gate fires, kept when it does not), so every tick comes at least the
\* interval then in force after the tick before it, key delays included.
C13_TickGate ==
    /\ [](sinceUpdate = elapsed)
    /\ [][adv' # <<>> =>
             (sinceUpdate >= Interval(G) /\ elapsed >= Interval(G))]_vars
    /\ [][(vars' # vars /\ ~(GameOverFrame \/ MenuFrame)) =>
             (adv' # <<>> <=> sinceUpdate >= Interval(G))]_vars

\* C13 witness: the last two ticks of a round moved the snake sideways and
\* then up or down, so an accepted direction key and its delay came between
\* them, and the next gate call comes before the interval has passed.
C13_Witness ==
    /\ adv = body
    /\ hits = <<>>
    /\ ticks >= 2
    /\ body[1].x = body[2].x
    /\ body[2].y = body[3].y
    /\ sinceUpdate < Interval(G)

\* C14: whatever cells the random source returns, the cell GenerateRandomPos
\* returns has both coordinates in 0..cellcount-1 and is not in the occupied
\* deque; it is the first candidate drawn that is not occupied.
C14_SpawnFree ==
    position # NoCell =>
        /\ InsideGrid(position)
        /\ ~ElementInDeque(position, occupied)
        /\ \E i \in 1..Len(candidates) :
              /\ position = candidates[i]
              /\ \A j \in 1..(i - 1) : candidates[j] \in Cells(occupied)

\* C14 witness: the first candidate was on the occupied deque and rejected,
\* and a later one was returned.
C14_Witness ==
    /\ position # NoCell
    /\ Len(occupied) >= 2
    /\ candidates[1] \in Cells(occupied)
    /\ position # candidates[1]

\* 0.2 * 0.98^k in the model's time unit, each factor rounded down to 1e-8 s
RECURSIVE ScaledPower(_)
ScaledPower(k) ==
    IF k = 0 THEN SpeedInit ELSE (ScaledPower(k - 1) * SpeedNum) \div SpeedDen

\* 0.2 * 0.98^k for k = 0..MaxEats
RampTable == [k \in 0..MaxEats |-> ScaledPower(k)]

\* K: the least k with 0.2 * 0.98^k < 0.07
RampSteps ==
    CHOOSE k \in 0..MaxEats :
        /\ RampTable[k] < SpeedFloor
        /\ \A j \in 0..(k - 1) : RampTable[j] >= SpeedFloor

\* C15: in the multi-fruit build, with N items eaten in the round the tick
\* interval is 0.2 * 0.98^min(N, K), where K = 52 is the least k with
\* 0.2 * 0.98^k < 0.07; within a round it never increases, and a round end
\* sets it to 0.2 again.
C15_SpeedRamp ==
    /\ [](speed = RampTable[Min(score, RampSteps)] /\ RampSteps = 52)
    /\ [][/\ score' > score => speed' <= speed
          /\ (score' > score /\ speed < SpeedFloor) => speed' = speed
          /\ score' <= score => (score' = 0 /\ speed' = SpeedInit)
         ]_vars

\* C15 witness: more than K items have been eaten in a round that follows
\* another round, and the interval is below the floor.
C15_Witness ==
    /\ score > RampSteps + 1
    /\ speed < SpeedFloor
    /\ high_score > score

\* C16: the game starts in Menu (running and game_over both false); once
\* one of the two is true one of them stays true, so Menu is never entered
\* again, a state with game_over true is left only to a state with running
\* true, and exit stays false after the first start input.
C16_MenuOnlyAtStart ==
    /\ (running = FALSE /\ game_over = FALSE /\ exit = FALSE)
    /\ [][/\ (running = TRUE \/ game_over = TRUE) =>
                (/\ running' = TRUE \/ game_over' = TRUE
                 /\ exit' = FALSE)
          /\ (game_over = TRUE /\ game_over' = FALSE) => running' = TRUE
          /\ exit' = TRUE => (running = FALSE /\ game_over = FALSE)
         ]_vars

\* C16 witness: a round has ended, the game was restarted and the snake is
\* moving again.
C16_Witness ==
    /\ high_score >= 1
    /\ running = TRUE
    /\ game_over = FALSE
    /\ adv = body
    /\ hits = <<>>
    /\ exit = FALSE

\* the points of the rectangle with top-left corner b.position and the size
\* of b's texture, without and with its right and bottom edges
StrictlyInside(p, b) ==
    /\ p.x \in b.position.x..(b.position.x + b.width - 1)
    /\ p.y \in b.position.y..(b.position.y + b.height - 1)

InsideOrOnEdge(p, b) ==
    /\ p.x \in b.position.x..(b.position.x + b.width)
    /\ p.y \in b.position.y..(b.position.y + b.height)

\* C17: isPressed returns true when mousePressed is true and mousePos is in
\* the button's rectangle, false for every position outside the rectangle
\* and for every call with mousePressed false, and leaves the button as it
\* was.
C17_IsPressed ==
    /\ [](returned # <<>> =>
            /\ (mouse.pressed /\ StrictlyInside(mouse.pos, button))
                  => returned[1] = TRUE
            /\ ~InsideOrOnEdge(mouse.pos, button) => returned[1] = FALSE
            /\ ~mouse.pressed => returned[1] = FALSE)
    /\ [][button' = button /\ mouse' = mouse]_vars

\* C17 witness: a click one pixel to the left of the restart button was
\* answered false.
C17_Witness ==
    /\ returned = <<FALSE>>
    /\ mouse.pressed
    /\ button.position = Vec(350, 500)
    /\ mouse.pos.x = button.position.x - 1
    /\ mouse.pos.y = button.position.y

\* the fruits at cell c
FruitsAt(fs, c) == {i \in 1..Len(fs) : fs[i] = c}

\* C18: a tick whose post-advance head is on k >= 1 fruits adds exactly k to
\* score, sets addSegment and moves each of those fruits to a cell off the
\* post-advance body, the other fruits staying where they are; a tick whose
\* head is on no fruit leaves score, speed, addSegment (false after the
\* advance) and all fruits alone.  (For a tick that ends the round, the
\* score is the one GameOver was entered with.)
C18_MultiEat ==
    [][adv' # <<>> =>
          LET under == FruitsAt(fruits, adv'[1])
              k == Cardinality(under)
          IN  /\ hits' = <<>> =>
                    /\ score' = score + k
                    /\ addSegment' = (k >= 1)
                    /\ \A i \in under : fruits'[i] \notin Cells(adv')
                    /\ \A i \in (1..Len(fruits)) \ under : fruits'[i] = fruits[i]
                    /\ k = 0 => speed' = speed
              /\ hits' # <<>> => overLog'[1][1] = score + k
      ]_vars

\* C18 witness: the first tick of a round of the multi-fruit build has eaten
\* two or more fruits at once.
C18_Witness ==
    /\ build = "multi"
    /\ adv = body
    /\ hits = <<>>
    /\ ticks = 1
    /\ score >= 2
    /\ addSegment
    /\ \E i \in 1..Len(fruits) : fruits[i] = Vec(7, 8)

\* C19 (as claimed): Snake::Reset, called on any snake, leaves the body
\* [(6,9),(5,9),(4,9)], the direction (1,0) and addSegment false.
C19_ResetClears ==
    [][/\ body' = InitBody
       /\ direction' = InitDirection
       /\ addSegment' = FALSE
      ]_vars

\* C20: the snake is never shorter than its three initial cells; the
\* Snake::Update call of a tick leaves the length as it was or adds one cell
\* (one exactly when growth was pending); and the body gets shorter over a
\* frame only when that frame's tick ended the round, and then it is the
\* three-cell initial body.
C20_LengthBounds ==
    /\ [](Len(body) >= Len(InitBody) /\ Len(InitBody) = 3)
    /\ [][(adv' # <<>> =>
             (/\ Len(adv') - Len(body) \in {0, 1}
              /\ Len(adv') - Len(body) = (IF addSegment THEN 1 ELSE 0)))
          /\ (adv' = <<>> => Len(body') = Len(body))
          /\ (Len(body') < Len(body) =>
               (adv' # <<>> /\ hits' # <<>> /\ body' = InitBody))]_vars

\* A round that ended with a grown snake: the tick's body had five cells and
\* the frame left the three-cell body.
C20_Witness ==
    /\ hits # <<>>
    /\ Len(adv) >= 5
    /\ body = InitBody

\* C21 (as claimed): the tick interval is never below its floor 0.07 and
\* never above its initial value 0.2, and every round end sets it to 0.2.
C21_SpeedAboveFloor ==
    /\ [](SpeedFloor <= speed /\ speed <= SpeedInit)
    /\ [][SpeedRoundEnd => speed' = SpeedInit]_vars

\* the least interval the floor test lets through: one factor 0.98 below 0.07
BelowFloor == (SpeedFloor * SpeedNum) \div SpeedDen

\* C21 (amended): the tick interval is never above 0.2 and never below
\* 0.98 * 0.07; it is below 0.07 exactly when K = 52 or more items have been
\* eaten in the round (the floor test precedes the last multiplication), and
\* every round end sets it to 0.2.
C21_SpeedBounds ==
    /\ [](/\ BelowFloor <= speed
          /\ speed <= SpeedInit
          /\ speed < SpeedFloor <=> score >= RampSteps)
    /\ [][SpeedRoundEnd => speed' = SpeedInit]_vars

\* C21 witness: after a long round has ended, a new round has eaten exactly
\* K items and its interval is below 0.07.
C21_Witness ==
    /\ temp_score >= MaxEats
    /\ score = RampSteps
    /\ speed < SpeedFloor
    /\ speed >= BelowFloor

\* C22: a frame whose tick ends the round leaves temp_score equal to the
\* score the round had reached at the collision (the score before the tick
\* plus the fruits under the post-advance head), GameOver being called once
\* in that tick, so that temp_score is not overwritten with 0; every other
\* frame leaves temp_score as it is.
C22_LastRoundScore ==
    /\ [](Len(overLog) = Len(hits) /\ Len(hits) <= 1)
    /\ [][/\ hits' # <<>> =>
               (/\ adv' # <<>>
                /\ temp_score' = overLog'[1][1]
                /\ temp_score' = score + Cardinality(FruitsAt(fruits, adv'[1])))
          /\ hits' = <<>> => temp_score' = temp_score
         ]_vars

\* C22 witness: a round that ended with score 2 is followed by a round that
\* has eaten one fruit, and temp_score is still 2.
C22_Witness ==
    /\ temp_score = 2
    /\ score = 1
    /\ running = TRUE
    /\ game_over = FALSE
    /\ adv = body
    /\ hits = <<>>

\* the cells of the top right corner of the grid and the cells one step
\* outside it
CornerCells == {Vec(x, y) : x \in (cellcount - 2)..cellcount, y \in -1..1}

Adjacent(a, b) ==
    \/ a.x = b.x /\ (a.y - b.y) \in {-1, 1}
    \/ a.y = b.y /\ (a.x - b.x) \in {-1, 1}

\* every chain of 3 or 4 corner cells, each next to the one before it
\* (chains that cross themselves or leave the grid included)
CornerSnakes ==
    {b \in UNION {[1..n -> CornerCells] : n \in {3, 4}} :
        \A i \in 1..(Len(b) - 1) : Adjacent(b[i], b[i + 1])}

\* C23 (as claimed): there is a tick in which the boundary check and the
\* self-collision check both fire, each calling GameOver: read here on every
\* snake of the corner, reachable or not, moving in any direction.
C23_BothChecksFire ==
    \E b \in CornerSnakes, d \in Directions, a \in BOOLEAN :
       \E h \in Update([G EXCEPT !.running = TRUE, !.game_over = FALSE,
                                 !.body = b, !.direction = d,
                                 !.addSegment = a]) :
          Len(h.hits) >= 2

\* C23 (amended): at most one of the three tests (boundary in x, boundary in
\* y, self-collision) calls GameOver in a tick, so one tick emits at most one
\* collision signal: the first test that fires resets the snake and the later
\* tests see the initial body.  The test that fires is the first in the
\* code's order that the post-advance snake satisfies.
C23_OneSignalPerTick ==
    /\ [](Len(hits) <= 1)
    /\ [][adv' # <<>> =>
            LET x == OutOfBoundsX(adv'[1])
                y == OutOfBoundsY(adv'[1])
                t == HeadHitsBody(adv')
            IN  /\ ~(x /\ y)
                /\ ~((x \/ y) /\ t)
                /\ hits' = (IF x THEN <<"edgeX">>
                            ELSE IF y THEN <<"edgeY">>
                            ELSE IF t THEN <<"tail">> ELSE <<>>)
         ]_vars

\* C23 witness: a tick has taken the head through the top edge and the
\* boundary check alone has ended the round.
C23_Witness ==
    /\ adv # <<>>
    /\ adv[1].y = -1
    /\ hits = <<"edgeY">>
    /\ body = InitBody

\* C24 (as claimed): at every frame boundary running and game_over are not
\* both true, so the two flags encode Menu, Running or GameOver.
C24_FlagsExclusive ==
    /\ running \in BOOLEAN
    /\ game_over \in BOOLEAN
    /\ ~(running = TRUE /\ game_over = TRUE)

Distinct(b) == \A i, j \in 1..Len(b) : i # j => b[i] # b[j]

\* C25: at every frame boundary (after the collision checks of a tick, and
\* in every Menu and GameOver state) the cells of snake.body are pairwise
\* distinct; a tick whose advance puts the head on another cell of the body
\* is ended by the self-collision check and leaves the initial 3-cell body.
C25_BodyDistinct ==
    /\ [](Distinct(body))
    /\ [][(adv' # <<>> /\ ~Distinct(adv')) =>
             (/\ adv'[1] \in Cells(Tail(adv'))
              /\ Distinct(Tail(adv'))
              /\ hits' = <<"tail">>
              /\ body' = InitBody)]_vars

\* C25 witness: the head of a snake of four or more cells has advanced onto
\* another cell of the body (the tick left a duplicate), and the round ended
\* with the initial body.
C25_Witness ==
    /\ adv # <<>>
    /\ Len(adv) >= 4
    /\ ~Distinct(adv)
    /\ hits = <<"tail">>
    /\ body = InitBody

\* C26: in every reachable state each two consecutive cells of snake.body
\* differ by exactly 1 in exactly one coordinate, and after a tick that did
\* not end the round the head minus the second cell is the direction the
\* tick applied (snake.direction when Game::Update was called).
C26_BodyConnected ==
    /\ [](/\ direction \in Directions
          /\ \A i \in 1..(Len(body) - 1) : Adjacent(body[i], body[i + 1]))
    /\ [][(adv' # <<>> /\ hits' = <<>>) =>
             (/\ body' = adv'
              /\ body'[1].x - body'[2].x = direction.x
              /\ body'[1].y - body'[2].y = direction.y
              /\ body'[2] = body[1])]_vars

\* C26 witness: a snake of four or more cells has just moved up after
\* moving sideways, and the round goes on.
C26_Witness ==
    /\ adv = body
    /\ hits = <<>>
    /\ Len(body) >= 4
    /\ body[1].x = body[2].x
    /\ body[1].y = body[2].y - 1
    /\ body[3].y = body[2].y

\* C27: under a fair random source, GenerateRandomPos(occupied) returns
\* whenever some cell the source can return is not in occupied, and never
\* returns when occupied holds every such cell.
C27_Termination ==
    /\ (GenerateRandomCell \ Cells(occupied) # {}) => <>(position # NoCell)
    /\ (GenerateRandomCell \ Cells(occupied) = {}) => [](position = NoCell)

\* C27 witness: the function has returned a cell after the loop rejected a
\* draw, with all but one of the cells occupied.
C27_Witness ==
    /\ position # NoCell
    /\ Len(candidates) >= 2
    /\ candidates[Len(candidates) - 1] \in Cells(occupied)
    /\ position = candidates[Len(candidates)]
    /\ Cardinality(GenerateRandomCell \ Cells(occupied)) = 1

\* C28: food items are placed without regard to each other.  The fruits a
\* round end can leave are all the combinations of cells off the reset
\* snake (read in the states a round end has left), and the cells the eaten
\* fruits of a tick can be respawned on are all the combinations of cells
\* off the post-advance snake, whatever cells the other fruits lie on; so
\* two fruits can share a cell, and a round is ended only by the boundary
\* and self-collision checks, never by that.
C28_FoodIndependent ==
    /\ [](/\ hits # <<>> =>
                {h.fruits : h \in GameOver(G)} =
                    [1..FruitCount(build) -> GenerateRandomPos(InitBody)]
          /\ FruitsAt(fruits, Vector2Add(body[1], direction)) # {} =>
                LET outs == {g \in TickOutcomes : g.hits = <<>>}
                IN  \A g \in outs :
                       LET under == FruitsAt(fruits, g.adv[1])
                       IN  {[i \in under |-> h.fruits[i]] : h \in outs} =
                               [under -> GenerateRandomPos(g.adv)])
    /\ [][hits' # <<>> =>
             (OneStepOutside(adv'[1]) \/ HeadOnOtherCell(adv'))]_vars

\* C28 witness: the first tick of a round has eaten one fruit and respawned
\* it on the cell the two other fruits already shared.
C28_Witness ==
    /\ build = "multi"
    /\ adv = body
    /\ ticks = 1
    /\ score = 1
    /\ addSegment
    /\ fruits[1] = fruits[2]
    /\ fruits[2] = fruits[3]

\* C29: at every frame boundary (after the checks of a tick, and in every
\* Menu and GameOver state) every cell of snake.body has both coordinates in
\* 0..cellcount-1.  The advance of a tick takes the head at most one step
\* outside the grid, onto x or y equal to -1 or cellcount, the rest of the
\* body staying inside; the boundary check of that same tick fires and the
\* frame ends with the initial body.
C29_BodyInsideGrid ==
    /\ [](\A i \in 1..Len(body) : InsideGrid(body[i]))
    /\ [][adv' # <<>> =>
             (/\ \A i \in 2..Len(adv') : InsideGrid(adv'[i])
              /\ ~InsideGrid(adv'[1]) =>
                    (/\ OneStepOutside(adv'[1])
                     /\ EdgeHit(hits')
                     /\ body' = InitBody))]_vars

\* C29 witness: a grown snake has run through the right edge, head on
\* x = cellcount, and the round ended with the initial body.
C29_Witness ==
    /\ adv # <<>>
    /\ Len(adv) >= 4
    /\ adv[1].x = cellcount
    /\ hits = <<"edgeX">>
    /\ body = InitBody

\* C30: a tick that ends the round has eaten nothing: no fruit lay under its
\* post-advance head, GameOver was entered with the score the tick started
\* with, and addSegment is false when the frame ends.  addSegment is false
\* in every state with game_over true, and a round restarted from such a
\* state starts with addSegment false: the frame of the restart leaves the
\* initial three cells and no pending growth, or, when it already ticks,
\* its advance keeps the snake at three cells.
C30_NoEatAtRoundEnd ==
    /\ [](game_over = TRUE => addSegment = FALSE)
    /\ [][/\ hits' # <<>> =>
               (/\ FruitsAt(fruits, adv'[1]) = {}
                /\ overLog'[1][1] = score
                /\ addSegment' = FALSE)
          /\ (game_over = TRUE /\ game_over' = FALSE) =>
               (/\ adv' = <<>> => (addSegment' = FALSE /\ body' = InitBody)
                /\ adv' # <<>> => Len(adv') = Len(InitBody))
         ]_vars

\* C30 witness: a round has ended on the tick after the one that ate its
\* only fruit: the tick used up the pending growth and left none.
C30_Witness ==
    /\ hits # <<>>
    /\ overLog[1][1] = 1
    /\ Len(adv) = 4
    /\ addSegment = FALSE
    /\ game_over = TRUE
    /\ ticks = 0

\* 3 + score minus the cells the snake has or is about to get: the items
\* eaten in the round that gave no growth
Deficit(b, a, s) == Len(InitBody) + s - (Len(b) + (IF a THEN 1 ELSE 0))

\* C31: at every frame boundary len(body) + (1 if addSegment) <= 3 + score.
\* In the single-food build equality always holds.  In the multi-fruit build
\* the difference is 0 at the start and after every round end, and a tick
\* that does not end the round raises it by k - 1 when k >= 1 fruits lay
\* under the post-advance head (fruits sharing that cell: score rises by k,
\* one segment is scheduled) and leaves it alone otherwise.
C31_LengthVsScore ==
    /\ [](/\ Deficit(body, addSegment, score) >= 0
          /\ build = "single" => Deficit(body, addSegment, score) = 0
          /\ game_over = TRUE => Deficit(body, addSegment, score) = 0)
    /\ [][LET before == Deficit(body, addSegment, score)
              after  == Deficit(body', addSegment', score')
          IN  /\ adv' = <<>> => after = before
              /\ (adv' # <<>> /\ hits' # <<>>) => after = 0
              /\ (adv' # <<>> /\ hits' = <<>>) =>
                    LET k == Cardinality(FruitsAt(fruits, adv'[1]))
                    IN  /\ after = before + (IF k >= 1 THEN k - 1 ELSE 0)
                        /\ score' = score + k
                        /\ addSegment' = (k >= 1)
         ]_vars

\* C31 witness: in the multi-fruit build two fruits on one cell were eaten
\* in one tick and the snake has since grown to four cells with score 2:
\* one item of the score gave no segment.
C31_Witness ==
    /\ build = "multi"
    /\ adv = body
    /\ hits = <<>>
    /\ ticks >= 2
    /\ score = 2
    /\ Len(body) = 4
    /\ addSegment = FALSE

----------------------------------------------------------------------------
(* SpecGate: the tick gate of main's playing branch over many frames, with *)
(* the clock kept exactly (sinceUpdate is not cut off here).  Only the     *)
(* gate, the direction keys with their WaitTime and the frame time are     *)
(* kept; ticks counts the calls of Game::Update, up to MaxSteerTicks.      *)

\* how many times one loop iteration calls Game::Update, counted as a loop
\* that catches up on the intervals that have elapsed would
GateCallsCatchUp(interval, since) == since \div interval

\* how many times one loop iteration calls Game::Update:
\* if (EventTriggered(interval)) game.Update();
GateCalls(interval, since) ==
    IF EventTriggered(interval, since) THEN 1 ELSE 0

\* GetTime() - lastUpdateTime right after the gate call
GateSince(interval, since) ==
    IF EventTriggered(interval, since) THEN 0 ELSE since

\* the tick intervals tried: the initial one and the lowest of a round
GateSpeeds == {SpeedInit, RampTable[RampSteps]}

GateInit ==
    /\ build \in Builds
    /\ body = InitBody
    /\ direction = InitDirection
    /\ addSegment = FALSE
    /\ fruits = [i \in 1..FruitCount(build) |-> Vec(12, 12)]
    /\ score = 0
    /\ speed \in (IF build = "multi" THEN GateSpeeds ELSE {SpeedInit})
    /\ running = TRUE
    /\ game_over = FALSE
    /\ high_score = 0
    /\ temp_score = 0
    /\ exit = FALSE
    /\ sinceUpdate = 0
    /\ ticks = 0
    /\ adv = <<>>
    /\ hits = <<>>
    /\ overLog = <<>>
    /\ maxFinal = 0
    /\ elapsed = 0
    /\ lag = 0
    /\ FoodIdle
    /\ ButtonIdle

\* one iteration of the playing branch as the clock sees it: the gate, the
\* direction keys (each accepted key blocks for WaitTime), the rest of the
\* frame
GateFrame ==
    \E keys \in SUBSET Keys, dt \in FrameTimes :
       LET fired == EventTriggered(Interval(G), sinceUpdate)
           k == DirectionKeys([build |-> build, direction |-> direction,
                               running |-> running, wait |-> 0], keys)
       IN  /\ ticks' = Min(ticks + GateCalls(Interval(G), sinceUpdate),
                           MaxSteerTicks)
           /\ lag' = IF fired THEN sinceUpdate ELSE lag
           /\ direction' = k.direction
           /\ sinceUpdate' = GateSince(Interval(G), sinceUpdate) + k.wait + dt
           /\ UNCHANGED <<build, body, addSegment, fruits, score, speed,
                          running, game_over, high_score, temp_score, exit,
                          adv, hits, overLog, maxFinal, elapsed,
                          foodVars, buttonVars>>

GateNext == GateFrame

SpecGate == GateInit /\ [][GateNext]_vars

\* the times a frame can add to the clock after its gate call
FrameSpans(b) ==
    {n * WaitTime(b) + dt : n \in 0..2, dt \in FrameTimes}

\* C32: a frame calls Game::Update once when the tick interval has elapsed
\* since the last tick and not at all otherwise, however many intervals have
\* elapsed; a frame that ticks sets lastUpdateTime to the current time, so
\* at the next gate call only that frame's own waits and frame time count.
C32_OneTickPerFrame ==
    [][LET fired == sinceUpdate >= Interval(G)
       IN  /\ fired =>
                /\ ticks' = Min(ticks + 1, MaxSteerTicks)
                /\ lag' = sinceUpdate
                /\ sinceUpdate' \in FrameSpans(build)
           /\ ~fired =>
                /\ ticks' = ticks
                /\ lag' = lag
                /\ (sinceUpdate' - sinceUpdate) \in FrameSpans(build)
      ]_vars

\* C32 witness: the gate has fired once after two or more tick intervals
\* had elapsed (two accepted direction keys blocked the loop), and the next
\* frame will not tick: the intervals missed are not made up for.
C32_Witness ==
    /\ lag >= 2 * Interval(G)
    /\ ticks = 2
    /\ sinceUpdate < Interval(G)

----------------------------------------------------------------------------
(* SpecStraight: the frames of main when no direction key is ever pressed, *)
(* with frames that keep running.  ticks counts all the ticks of the       *)
(* current round here and keeps its value when the round has ended.        *)

\* a frame of the playing branch without keys; a round started by ENTER in
\* this frame has had no tick before
StraightPlay ==
    /\ exit = FALSE
    /\ \E g2 \in UNION {Ticked(g1) : g1 \in Entered("play")} :
          LET before == IF game_over = TRUE \/ running = FALSE THEN 0 ELSE ticks
              g == [DirectionKeys(g2, {}) EXCEPT
                       !.ticks = IF g2.adv # <<>> THEN before + 1 ELSE before]
          IN  \E reading \in Readings(g) : Commit(g, reading)

\* a frame of the game-over branch; the restart button starts a round
StraightOver ==
    /\ exit = FALSE
    /\ \E g1 \in Entered("over"), click \in Clicks :
          LET g == [GameOverBranch(g1, click) EXCEPT
                       !.ticks = IF click = "restart" THEN 0 ELSE @]
          IN  \E reading \in Readings(g) : Commit(g, reading)

StraightNext == MenuFrame \/ StraightPlay \/ StraightOver

\* the loop keeps iterating while a round is played
SpecStraight == Init /\ [][StraightNext]_vars /\ WF_vars(StraightPlay)

\* C33: with no direction input, the head of a round's snake is on
\* x = 6 + (ticks so far), the round goes on through its first 18 ticks and
\* its 19th tick ends it by the boundary check in x (head x = cellcount =
\* 25), whatever was eaten; and every round being played reaches GameOver.
C33_StraightRun ==
    /\ [](/\ direction = InitDirection
          /\ (running = TRUE /\ game_over = FALSE) =>
                (/\ ticks <= 18
                 /\ body[1].x = InitBody[1].x + ticks
                 /\ body[1].y = InitBody[1].y))
    /\ [][/\ (adv' # <<>> /\ hits' = <<>>) => ticks' <= 18
          /\ hits' # <<>> =>
               (/\ ticks' = 19
                /\ hits' = <<"edgeX">>
                /\ adv'[1].x = cellcount
                /\ game_over' = TRUE)
         ]_vars
    /\ (running = TRUE /\ game_over = FALSE) ~> (game_over = TRUE)

\* C33 witness: a round that ate on its way has ended on its 19th tick, the
\* head of a grown snake on x = 25.
C33_Witness ==
    /\ hits = <<"edgeX">>
    /\ ticks = 19
    /\ adv[1] = Vec(cellcount, 9)
    /\ Len(adv) >= 4
    /\ overLog[1][1] >= 1
    /\ game_over = TRUE

=============================================================================
